---------------------------- MODULE Spec2Model ----------------------------
(***************************************************************************)
(* Finite automata (automaton.py) and the regular-expression compiler      *)
(* (re_parser.py).                                                         *)
(*                                                                         *)
(* Encoding.  A Python character is its code point (an integer); a Python  *)
(* string (a state name, a regular expression, an input "cadena") is the   *)
(* sequence of its code points.  Python's None is the integer None, which  *)
(* is no code point.  A dict is a function whose DOMAIN is the set of its  *)
(* keys; a list is a sequence; a set is a set.                             *)
(***************************************************************************)
EXTENDS Integers, Sequences, FiniteSets, TLC

\* ------------------------------------------------------------------------
\* Characters the code names
\* ------------------------------------------------------------------------
ChLParen == 40
ChRParen == 41
ChStar == 42
ChPlus == 43
ChDot == 46
ChZero == 48
ChC == 67
ChUnderscore == 95
ChLambda == 955
ChDead == 8709
None == -1

\* ------------------------------------------------------------------------
\* Python built-ins on strings, lists and dicts
\* ------------------------------------------------------------------------
\* s < t for Python strings: lexicographic on code points.
RECURSIVE StrLess(_, _)
StrLess(s, t) ==
    IF t = <<>> THEN FALSE
    ELSE IF s = <<>> THEN TRUE
    ELSE IF Head(s) # Head(t) THEN Head(s) < Head(t)
    ELSE StrLess(Tail(s), Tail(t))

\* sorted(S) for a set S of strings.
RECURSIVE sorted(_)
sorted(S) ==
    IF S = {} THEN <<>>
    ELSE LET m == CHOOSE x \in S : \A y \in S \ {x} : StrLess(x, y)
         IN <<m>> \o sorted(S \ {m})

\* sep.join(parts) for a list of strings.
RECURSIVE join(_, _)
join(sep, parts) ==
    IF parts = <<>> THEN <<>>
    ELSE IF Len(parts) = 1 THEN parts[1]
    ELSE parts[1] \o sep \o join(sep, Tail(parts))

\* str(n) for a natural number n: its decimal digits.
RECURSIVE str(_)
str(n) ==
    IF n < 10 THEN <<ChZero + n>>
    ELSE str(n \div 10) \o <<ChZero + (n % 10)>>

\* s.isdigit(): non-empty and made of decimal digits only.
isdigit(s) ==
    /\ s # <<>>
    /\ \A i \in 1..Len(s) : s[i] >= ChZero /\ s[i] <= ChZero + 9

\* int(s) for a string of decimal digits.
RECURSIVE int(_)
int(s) ==
    IF s = <<>> THEN 0
    ELSE 10 * int(SubSeq(s, 1, Len(s) - 1)) + (s[Len(s)] - ChZero)

\* max(S) of a non-empty set of integers.
max(S) == CHOOSE m \in S : \A x \in S : x <= m

\* list(S) for a set: its members in the order the set iterates them.  The
\* callers below compute results that do not depend on that order.
RECURSIVE list(_)
list(S) ==
    IF S = {} THEN <<>>
    ELSE LET x == CHOOSE y \in S : TRUE IN <<x>> \o list(S \ {x})

\* The members of a list, as a set.
Range(l) == {l[i] : i \in 1..Len(l)}

\* d[k] = v on a dict.
Put(d, k, v) == [x \in (DOMAIN d) \cup {k} |-> IF x = k THEN v ELSE d[x]]

\* {**d1, **d2} and d1.update(d2): the keys of d2 win.
Merge(d1, d2) ==
    [x \in (DOMAIN d1) \cup (DOMAIN d2) |-> IF x \in DOMAIN d2 THEN d2[x] ELSE d1[x]]

EmptyDict == [x \in {} |-> <<>>]

\* ------------------------------------------------------------------------
\* FiniteAutomaton
\* ------------------------------------------------------------------------
\* The constructor.  Every destination handed to it below is already a list,
\* so its normalisation keeps the table as given.
FiniteAutomaton(initial_state, states, symbols, transitions, final_states) ==
    [kind |-> "automaton",
     initial_state |-> initial_state,
     states |-> states,
     symbols |-> symbols,
     transitions |-> transitions,
     final_states |-> final_states]

\* The value of a variable that holds no automaton (yet).
NoAutomaton == [kind |-> "none"]

\* self.transitions[state][sym] when both keys exist, else no destination.
Dests(A, state, sym) ==
    IF state \in DOMAIN A.transitions /\ sym \in DOMAIN A.transitions[state]
    THEN A.transitions[state][sym]
    ELSE <<>>

\* add_transition: appends end_state to the list of (start_state, symbol).
add_transition(A, start_state, symbol, end_state) ==
    LET row == IF start_state \in DOMAIN A.transitions
               THEN A.transitions[start_state] ELSE EmptyDict
        old == IF symbol \in DOMAIN row THEN row[symbol] ELSE <<>>
    IN [A EXCEPT !.transitions =
            Put(A.transitions, start_state, Put(row, symbol, Append(old, end_state)))]

\* ClosurePush with a slip: a destination is pushed whether or not the
\* closure holds it already.
RECURSIVE ClosurePushUnchecked(_, _, _)
ClosurePushUnchecked(dests, stack, closure) ==
    IF dests = <<>> THEN [stack |-> stack, closure |-> closure]
    ELSE ClosurePushUnchecked(Tail(dests), Append(stack, Head(dests)),
                              closure \cup {Head(dests)})

\* The inner for-loop of _lambda_closure over one destination list.
RECURSIVE ClosurePush(_, _, _)
ClosurePush(dests, stack, closure) ==
    IF dests = <<>> THEN [stack |-> stack, closure |-> closure]
    ELSE IF Head(dests) \notin closure
         THEN ClosurePush(Tail(dests), Append(stack, Head(dests)),
                          closure \cup {Head(dests)})
         ELSE ClosurePush(Tail(dests), stack, closure)

\* One turn of the while-loop of _lambda_closure: pop, then follow the two
\* epsilon markers.
ClosureIteration(A, stack, closure) ==
    LET state == stack[Len(stack)]
        rest == SubSeq(stack, 1, Len(stack) - 1)
        r1 == ClosurePush(Dests(A, state, ChLambda), rest, closure)
    IN ClosurePush(Dests(A, state, None), r1.stack, r1.closure)

\* The while-loop of _lambda_closure.
RECURSIVE ClosureLoop(_, _, _)
ClosureLoop(A, stack, closure) ==
    IF stack = <<>> THEN closure
    ELSE LET r == ClosureIteration(A, stack, closure)
         IN ClosureLoop(A, r.stack, r.closure)

lambda_closure(A, states) == ClosureLoop(A, list(states), states)

\* AcceptsStep with a slip: the destinations are taken without their closures.
AcceptsStepNoClosure(A, current_states, symbol) ==
    UNION {Range(Dests(A, state, symbol)) : state \in current_states}

\* One symbol of accepts: the closures of the destinations of current_states.
AcceptsStep(A, current_states, symbol) ==
    UNION {lambda_closure(A, {dest}) :
             dest \in UNION {Range(Dests(A, state, symbol)) : state \in current_states}}

RECURSIVE AcceptsLoop(_, _, _)
AcceptsLoop(A, current_states, cadena) ==
    IF cadena = <<>> THEN \E state \in current_states : state \in A.final_states
    ELSE LET next_states == AcceptsStep(A, current_states, Head(cadena))
         IN IF next_states = {} THEN FALSE
            ELSE AcceptsLoop(A, next_states, Tail(cadena))

accepts(A, cadena) ==
    AcceptsLoop(A, lambda_closure(A, {A.initial_state}), cadena)

\* ------------------------------------------------------------------------
\* to_deterministic
\* ------------------------------------------------------------------------
\* The alphabet both transformations work on: self.symbols without the markers.
RealSymbols(A) == {s \in A.symbols : s \notin {None, ChLambda}}

\* name_state of to_deterministic: the dead name for the empty set, else the
\* sorted member names joined by "_".
name_state(states) ==
    IF states = {} THEN <<ChDead>>
    ELSE join(<<ChUnderscore>>, sorted(states))

\* next_states of to_deterministic for one DFA state and one symbol.
DetNextStates(A, current, symbol) ==
    UNION {lambda_closure(A, {dest}) :
             dest \in UNION {Range(Dests(A, state, symbol)) : state \in current}}

\* Whether a set of NFA states holds a final state.
HasFinal(A, states) == \E s \in states : s \in A.final_states

\* DetSymbol with a slip: an empty next_states is skipped, so the dead state
\* is never made.
DetSymbolSkipEmpty(A, current, current_name, symbol, w) ==
    LET next_states == DetNextStates(A, current, symbol)
        next_name == name_state(next_states)
        trans == Put(w.dfa_transitions, current_name,
                     Put(w.dfa_transitions[current_name], symbol, <<next_name>>))
    IN IF next_states = {} THEN w
       ELSE IF next_name \notin w.dfa_states
       THEN [unchecked_states |-> Append(w.unchecked_states, next_states),
             dfa_states |-> w.dfa_states \cup {next_name},
             dfa_transitions |-> trans,
             dfa_final_states |->
                 IF HasFinal(A, next_states)
                 THEN w.dfa_final_states \cup {next_name}
                 ELSE w.dfa_final_states]
       ELSE [w EXCEPT !.dfa_transitions = trans]

\* The body of "for symbol in symbols" for one symbol.  w is the loop's
\* working state: unchecked_states, dfa_states, dfa_transitions,
\* dfa_final_states.
DetSymbol(A, current, current_name, symbol, w) ==
    LET next_states == DetNextStates(A, current, symbol)
        next_name == name_state(next_states)
        trans == Put(w.dfa_transitions, current_name,
                     Put(w.dfa_transitions[current_name], symbol, <<next_name>>))
    IN IF next_name \notin w.dfa_states
       THEN [unchecked_states |-> Append(w.unchecked_states, next_states),
             dfa_states |-> w.dfa_states \cup {next_name},
             dfa_transitions |-> trans,
             dfa_final_states |->
                 IF HasFinal(A, next_states)
                 THEN w.dfa_final_states \cup {next_name}
                 ELSE w.dfa_final_states]
       ELSE [w EXCEPT !.dfa_transitions = trans]

\* "for symbol in symbols", the symbols taken in the order the set gives them.
RECURSIVE DetSymbols(_, _, _, _, _)
DetSymbols(A, current, current_name, order, w) ==
    IF order = <<>> THEN w
    ELSE DetSymbols(A, current, current_name, Tail(order),
                    DetSymbol(A, current, current_name, Head(order), w))

\* "while unchecked_states": pop the last set and process every symbol.
RECURSIVE DetLoop(_, _, _)
DetLoop(A, order, w) ==
    IF w.unchecked_states = <<>> THEN w
    ELSE LET n == Len(w.unchecked_states)
             current == w.unchecked_states[n]
             current_name == name_state(current)
             w1 == [w EXCEPT
                      !.unchecked_states = SubSeq(w.unchecked_states, 1, n - 1),
                      !.dfa_transitions =
                          IF current_name \in DOMAIN w.dfa_transitions
                          THEN w.dfa_transitions
                          ELSE Put(w.dfa_transitions, current_name, EmptyDict)]
         IN DetLoop(A, order, DetSymbols(A, current, current_name, order, w1))

\* to_deterministic; order is the order in which the set "symbols" iterates,
\* the same in every pass of the loop.
to_deterministic(A, order) ==
    LET closure == lambda_closure(A, {A.initial_state})
        w0 == [unchecked_states |-> <<closure>>,
               dfa_states |-> {name_state(closure)},
               dfa_transitions |-> EmptyDict,
               dfa_final_states |->
                   IF HasFinal(A, closure) THEN {name_state(closure)} ELSE {}]
        w == DetLoop(A, order, w0)
    IN FiniteAutomaton(name_state(closure), w.dfa_states, RealSymbols(A),
                       w.dfa_transitions, w.dfa_final_states)

\* The orders in which a set of symbols can iterate.
Orders(S) ==
    {o \in [1..Cardinality(S) -> S] : \A i, j \in 1..Cardinality(S) : o[i] = o[j] => i = j}

\* ------------------------------------------------------------------------
\* to_minimized
\* ------------------------------------------------------------------------
\* sorted(...) of a set of symbols (one-character strings): by code point.
RECURSIVE sorted_symbols(_)
sorted_symbols(S) ==
    IF S = {} THEN <<>>
    ELSE LET m == CHOOSE x \in S : \A y \in S : x <= y
         IN <<m>> \o sorted_symbols(S \ {m})

dead == <<ChDead>>

\* "for d in dests: if d not in reachable: queue.append(d)".
RECURSIVE ReachPush(_, _, _)
ReachPush(dests, reachable, queue) ==
    IF dests = <<>> THEN queue
    ELSE ReachPush(Tail(dests), reachable,
                   IF Head(dests) \notin reachable
                   THEN Append(queue, Head(dests)) ELSE queue)

\* "for sym in symbols" of the search, for the state st just reached.
RECURSIVE ReachSymbols(_, _, _, _, _)
ReachSymbols(A, st, symbols, reachable, queue) ==
    IF symbols = <<>> THEN queue
    ELSE LET dests == Dests(A, st, Head(symbols))
             q == IF dests # <<>>
                  THEN ReachPush(dests, reachable, queue)
                  ELSE IF dead \notin reachable /\ dead \notin Range(queue)
                       THEN Append(queue, dead)
                       ELSE queue
         IN ReachSymbols(A, st, Tail(symbols), reachable, q)

\* The breadth-first search from the initial state.
RECURSIVE ReachLoop(_, _, _, _)
ReachLoop(A, symbols, queue, reachable) ==
    IF queue = <<>> THEN reachable
    ELSE LET st == Head(queue)
         IN IF st \in reachable
            THEN ReachLoop(A, symbols, Tail(queue), reachable)
            ELSE ReachLoop(A, symbols,
                           ReachSymbols(A, st, symbols, reachable \cup {st}, Tail(queue)),
                           reachable \cup {st})

Reachable(A, symbols) == ReachLoop(A, symbols, <<A.initial_state>>, {})

\* "for sym in symbols: self.transitions[dead].setdefault(sym, [dead])".
RECURSIVE SetDefaults(_, _)
SetDefaults(row, symbols) ==
    IF symbols = <<>> THEN row
    ELSE SetDefaults(IF Head(symbols) \in DOMAIN row THEN row
                     ELSE Put(row, Head(symbols), <<dead>>),
                     Tail(symbols))

\* self.transitions after the dead state's self-loops were made sure of:
\* the table of the automaton to_minimized was called on.
MinSelfTransitions(A, symbols, reachable) ==
    IF dead \in reachable
    THEN Put(A.transitions, dead,
             SetDefaults(IF dead \in DOMAIN A.transitions
                         THEN A.transitions[dead] ELSE EmptyDict,
                         symbols))
    ELSE A.transitions

\* dtrans: one destination per state and symbol, the first of the list or
\* the dead state.
MinDtrans(A, symbols, states) ==
    [s \in states |->
        [sym \in Range(symbols) |->
            LET dests == Dests(A, s, sym)
            IN IF dests # <<>> THEN <<dests[1]>> ELSE <<dead>>]]

\* build_class_map; a class is its position in the list, counted from 0.
build_class_map(parts) ==
    [st \in UNION Range(parts) |->
        (CHOOSE i \in 1..Len(parts) :
            /\ st \in parts[i]
            /\ \A j \in (i + 1)..Len(parts) : st \notin parts[j]) - 1]

\* Signature with a slip: only the first symbol is looked at.
SignatureFirstSymbol(dtrans, cmap, symbols, st) ==
    [i \in 1..(IF Len(symbols) > 0 THEN 1 ELSE 0) |-> cmap[dtrans[st][symbols[i]][1]]]

\* Signature with a slip: the destinations themselves, not their classes.
SignatureByState(dtrans, cmap, symbols, st) ==
    [i \in 1..Len(symbols) |-> dtrans[st][symbols[i]][1]]

\* sig: the classes of the destinations of st, symbol by symbol.
Signature(dtrans, cmap, symbols, st) ==
    [i \in 1..Len(symbols) |-> cmap[dtrans[st][symbols[i]][1]]]

\* "for st in sorted(part): groups.setdefault(sig, set()).add(st)"; groups is
\* the list of the dict's (key, value) pairs in insertion order.
RECURSIVE GroupStates(_, _, _, _, _)
GroupStates(dtrans, cmap, symbols, sts, groups) ==
    IF sts = <<>> THEN groups
    ELSE LET st == Head(sts)
             sig == Signature(dtrans, cmap, symbols, st)
             g == IF \E i \in 1..Len(groups) : groups[i].sig = sig
                  THEN [i \in 1..Len(groups) |->
                           IF groups[i].sig = sig
                           THEN [groups[i] EXCEPT !.sts = @ \cup {st}]
                           ELSE groups[i]]
                  ELSE Append(groups, [sig |-> sig, sts |-> {st}])
         IN GroupStates(dtrans, cmap, symbols, Tail(sts), g)

\* One pass of the refinement over the parts that are left; new_parts grows.
RECURSIVE RefinePass(_, _, _, _, _)
RefinePass(dtrans, cmap, symbols, parts, acc) ==
    IF parts = <<>> THEN acc
    ELSE LET part == Head(parts)
             groups == GroupStates(dtrans, cmap, symbols, sorted(part), <<>>)
             a == IF Len(groups) = 1
                  THEN [changed |-> acc.changed,
                        new_parts |-> Append(acc.new_parts, part)]
                  ELSE [changed |-> TRUE,
                        new_parts |-> acc.new_parts \o
                                      [i \in 1..Len(groups) |-> groups[i].sts]]
         IN RefinePass(dtrans, cmap, symbols, Tail(parts), a)

\* RefineLoop with a slip: one pass, whether or not it changed anything.
RefineOnePass(dtrans, symbols, partitions) ==
    RefinePass(dtrans, build_class_map(partitions), symbols, partitions,
               [changed |-> FALSE, new_parts |-> <<>>]).new_parts

\* "while changed".
RECURSIVE RefineLoop(_, _, _)
RefineLoop(dtrans, symbols, partitions) ==
    LET r == RefinePass(dtrans, build_class_map(partitions), symbols, partitions,
                        [changed |-> FALSE, new_parts |-> <<>>])
    IN IF r.changed THEN RefineLoop(dtrans, symbols, r.new_parts)
       ELSE r.new_parts

\* The partition before the refinement: non-finals first, then finals.
InitialPartition(states, finals) ==
    (IF states \ finals # {} THEN <<states \ finals>> ELSE <<>>) \o
    (IF finals # {} THEN <<finals>> ELSE <<>>)

\* class_names[i] for the class at position i + 1 of the list.
class_name(i) == <<ChC>> \o str(i)

\* MinTrans with a slip: only the first symbol gets its transition.
MinTransFirstSymbol(dtrans, cmap, symbols, partitions, rep) ==
    LET names == {class_name(i - 1) : i \in 1..Len(partitions)}
    IN [name \in names |->
          LET i == CHOOSE j \in 1..Len(partitions) : class_name(j - 1) = name
          IN [sym \in (IF symbols = <<>> THEN {} ELSE {symbols[1]}) |->
                <<class_name(cmap[dtrans[rep[i]][sym][1]])>>]]

\* min_trans, built from the representative rep[i] of each class.
MinTrans(dtrans, cmap, symbols, partitions, rep) ==
    LET names == {class_name(i - 1) : i \in 1..Len(partitions)}
    IN [name \in names |->
          LET i == CHOOSE j \in 1..Len(partitions) : class_name(j - 1) = name
          IN [sym \in Range(symbols) |->
                <<class_name(cmap[dtrans[rep[i]][sym][1]])>>]]

\* All that to_minimized computes before it picks representatives.
MinWork(A) ==
    LET symbols == sorted_symbols(RealSymbols(A))
        reachable == Reachable(A, symbols)
        self == [A EXCEPT !.transitions = MinSelfTransitions(A, symbols, reachable)]
        dtrans == MinDtrans(self, symbols, reachable)
        finals == {s \in A.final_states : s \in reachable}
        partitions == RefineLoop(dtrans, symbols, InitialPartition(reachable, finals))
    IN [symbols |-> symbols, self |-> self, dtrans |-> dtrans, finals |-> finals,
        partitions |-> partitions, cmap |-> build_class_map(partitions)]

\* The representatives "next(iter(part))" can give: any member of each part.
Representatives(partitions) ==
    {rep \in [1..Len(partitions) -> UNION Range(partitions)] :
        \A i \in 1..Len(partitions) : rep[i] \in partitions[i]}

\* to_minimized: the automaton returned (result) and the automaton it was
\* called on as the call leaves it (self).
to_minimized(A, rep) ==
    LET w == MinWork(A)
        n == Len(w.partitions)
    IN [self |-> w.self,
        result |->
          FiniteAutomaton(
            class_name(w.cmap[A.initial_state]),
            {class_name(i - 1) : i \in 1..n},
            Range(w.symbols),
            MinTrans(w.dtrans, w.cmap, w.symbols, w.partitions, rep),
            {class_name(i - 1) : i \in {j \in 1..n : w.partitions[j] \cap w.finals # {}}})]

\* ------------------------------------------------------------------------
\* re_parser: _re_to_rpn
\* ------------------------------------------------------------------------
\* An exception leaves the function: no value is returned.
IndexError == [kind |-> "IndexError"]

\* "while len(stack) > 0 and <cond on stack[-1]>: rpn_string += stack.pop()";
\* plus: the "+" branch pops down to "(", the "." branch pops "." only.
RECURSIVE RpnPopWhile(_, _, _)
RpnPopWhile(stack, rpn_string, plus) ==
    IF /\ Len(stack) > 0
       /\ IF plus THEN stack[Len(stack)] # ChLParen ELSE stack[Len(stack)] = ChDot
    THEN RpnPopWhile(SubSeq(stack, 1, Len(stack) - 1),
                     Append(rpn_string, stack[Len(stack)]), plus)
    ELSE [kind |-> "ok", stack |-> stack, rpn_string |-> rpn_string]

\* The ")" branch: "while stack[-1] != '(': rpn_string += stack.pop()", then
\* "stack.pop()".  stack[-1] of an empty list raises IndexError.
RECURSIVE RpnCloseParen(_, _)
RpnCloseParen(stack, rpn_string) ==
    IF Len(stack) = 0 THEN IndexError
    ELSE IF stack[Len(stack)] # ChLParen
         THEN RpnCloseParen(SubSeq(stack, 1, Len(stack) - 1),
                            Append(rpn_string, stack[Len(stack)]))
         ELSE [kind |-> "ok", stack |-> SubSeq(stack, 1, Len(stack) - 1),
               rpn_string |-> rpn_string]

\* The final "while len(stack) > 0: rpn_string += stack.pop()".
RECURSIVE RpnFlush(_, _)
RpnFlush(stack, rpn_string) ==
    IF Len(stack) = 0 THEN rpn_string
    ELSE RpnFlush(SubSeq(stack, 1, Len(stack) - 1),
                  Append(rpn_string, stack[Len(stack)]))

\* "for x in re_string".
RECURSIVE RpnLoop(_, _, _)
RpnLoop(re_string, stack, rpn_string) ==
    IF re_string = <<>>
    THEN [kind |-> "ok", rpn_string |-> RpnFlush(stack, rpn_string)]
    ELSE LET x == Head(re_string)
             r == IF x = ChPlus
                  THEN LET p == RpnPopWhile(stack, rpn_string, TRUE)
                       IN [p EXCEPT !.stack = Append(p.stack, x)]
                  ELSE IF x = ChDot
                  THEN LET p == RpnPopWhile(stack, rpn_string, FALSE)
                       IN [p EXCEPT !.stack = Append(p.stack, x)]
                  ELSE IF x = ChLParen
                  THEN [kind |-> "ok", stack |-> Append(stack, x),
                        rpn_string |-> rpn_string]
                  ELSE IF x = ChRParen
                  THEN RpnCloseParen(stack, rpn_string)
                  ELSE [kind |-> "ok", stack |-> stack,
                        rpn_string |-> Append(rpn_string, x)]
         IN IF r.kind # "ok" THEN r
            ELSE RpnLoop(Tail(re_string), r.stack, r.rpn_string)

re_to_rpn(re_string) == RpnLoop(re_string, <<>>, <<>>)

\* ------------------------------------------------------------------------
\* re_parser: the composition rules of REParser
\* ------------------------------------------------------------------------
\* Each _create_automaton_* that allocates states returns the automaton and
\* the new value of self.state_counter.
create_automaton_empty(state_counter) ==
    [aut |-> FiniteAutomaton(str(state_counter), {str(state_counter)}, {}, EmptyDict, {}),
     state_counter |-> state_counter + 1]

create_automaton_lambda(state_counter) ==
    [aut |-> FiniteAutomaton(str(state_counter), {str(state_counter)}, {}, EmptyDict,
                             {str(state_counter)}),
     state_counter |-> state_counter + 1]

create_automaton_symbol(state_counter, symbol) ==
    LET state1 == str(state_counter)
        state2 == str(state_counter + 1)
    IN [aut |-> FiniteAutomaton(state1, {state1, state2}, {symbol},
                                (state1 :> (symbol :> <<state2>>)), {state2}),
        state_counter |-> state_counter + 2]

\* add_lambda of _create_automaton_star.
add_lambda(transitions, src, dst) ==
    LET row == IF src \in DOMAIN transitions THEN transitions[src] ELSE EmptyDict
    IN Put(transitions, src,
           Put(row, ChLambda,
               IF ChLambda \in DOMAIN row THEN Append(row[ChLambda], dst) ELSE <<dst>>))

\* "for f in automaton.final_states: add_lambda(f, dst)".
RECURSIVE AddLambdaFromAll(_, _, _)
AddLambdaFromAll(transitions, srcs, dst) ==
    IF srcs = <<>> THEN transitions
    ELSE AddLambdaFromAll(add_lambda(transitions, Head(srcs), dst), Tail(srcs), dst)

\* The two new states of _create_automaton_star.
StarNewStates(state_counter) ==
    [new_initial |-> str(state_counter), new_final |-> str(state_counter + 1)]

create_automaton_star(state_counter, automaton) ==
    LET new == StarNewStates(state_counter)
        finals == list(automaton.final_states)
        t1 == add_lambda(automaton.transitions, new.new_initial, automaton.initial_state)
        t2 == add_lambda(t1, new.new_initial, new.new_final)
        t3 == AddLambdaFromAll(t2, finals, automaton.initial_state)
        t4 == AddLambdaFromAll(t3, finals, new.new_final)
    IN [aut |-> FiniteAutomaton(new.new_initial,
                                automaton.states \cup {new.new_initial, new.new_final},
                                automaton.symbols, t4, {new.new_final}),
        state_counter |-> state_counter + 2]

\* offset_state of the union and of the concatenation.
offset_state(s, offset) == str(int(s) + offset)

\* The transition table of automaton2 with every state renamed by the offset.
OffsetTransitions(transitions, offset) ==
    [ns \in {offset_state(s, offset) : s \in DOMAIN transitions} |->
        LET s == CHOOSE t \in DOMAIN transitions : offset_state(t, offset) = ns
        IN [sym \in DOMAIN transitions[s] |->
              [i \in 1..Len(transitions[s][sym]) |->
                  offset_state(transitions[s][sym][i], offset)]]]

\* The offset both binary rules use; the union looks at digit names only.
UnionOffset(automaton1) ==
    LET a1_state_ints == {int(s) : s \in {t \in automaton1.states : isdigit(t)}}
    IN IF a1_state_ints # {} THEN max(a1_state_ints) + 1 ELSE 0

\* create_automaton_union with a slip: the final states of automaton2 keep
\* their old names.
create_automaton_union_old_finals(automaton1, automaton2) ==
    LET offset == UnionOffset(automaton1)
        a2_states_offset == {offset_state(s, offset) : s \in automaton2.states}
        a2_initial_offset == offset_state(automaton2.initial_state, offset)
        a2_transitions_offset == OffsetTransitions(automaton2.transitions, offset)
        new_initial ==
            str(offset + max({int(s) : s \in {t \in a2_states_offset : isdigit(t)}}) + 1)
        transitions ==
            Put(Merge(automaton1.transitions, a2_transitions_offset), new_initial,
                (ChLambda :> <<automaton1.initial_state, a2_initial_offset>>))
    IN FiniteAutomaton(new_initial,
                       automaton1.states \cup a2_states_offset \cup {new_initial},
                       automaton1.symbols \cup automaton2.symbols,
                       transitions,
                       automaton1.final_states \cup automaton2.final_states)

create_automaton_union(automaton1, automaton2) ==
    LET offset == UnionOffset(automaton1)
        a2_states_offset == {offset_state(s, offset) : s \in automaton2.states}
        a2_initial_offset == offset_state(automaton2.initial_state, offset)
        a2_finals_offset == {offset_state(s, offset) : s \in automaton2.final_states}
        a2_transitions_offset == OffsetTransitions(automaton2.transitions, offset)
        new_initial ==
            str(offset + max({int(s) : s \in {t \in a2_states_offset : isdigit(t)}}) + 1)
        transitions ==
            Put(Merge(automaton1.transitions, a2_transitions_offset), new_initial,
                (ChLambda :> <<automaton1.initial_state, a2_initial_offset>>))
    IN FiniteAutomaton(new_initial,
                       automaton1.states \cup a2_states_offset \cup {new_initial},
                       automaton1.symbols \cup automaton2.symbols,
                       transitions,
                       automaton1.final_states \cup a2_finals_offset)

\* "for f in automaton1.final_states" of the concatenation: the lambda move
\* to a2_init, unless the list already holds it.
RECURSIVE ConcatLink(_, _, _)
ConcatLink(transitions, finals, a2_init) ==
    IF finals = <<>> THEN transitions
    ELSE LET f == Head(finals)
             row == IF f \in DOMAIN transitions THEN transitions[f] ELSE EmptyDict
             old == IF ChLambda \in DOMAIN row THEN row[ChLambda] ELSE <<>>
             new == IF a2_init \in Range(old) THEN old ELSE Append(old, a2_init)
         IN ConcatLink(Put(transitions, f, Put(row, ChLambda, new)), Tail(finals), a2_init)

create_automaton_concat(automaton1, automaton2) ==
    LET a1_state_ints == {int(s) : s \in automaton1.states}
        offset == IF a1_state_ints # {} THEN max(a1_state_ints) + 1 ELSE 0
        a2_trans == OffsetTransitions(automaton2.transitions, offset)
        a2_init == offset_state(automaton2.initial_state, offset)
        transitions == ConcatLink(Merge(automaton1.transitions, a2_trans),
                                  list(automaton1.final_states), a2_init)
    IN FiniteAutomaton(automaton1.initial_state,
                       automaton1.states \cup {offset_state(s, offset) : s \in automaton2.states},
                       automaton1.symbols \cup automaton2.symbols,
                       transitions,
                       {offset_state(s, offset) : s \in automaton2.final_states})

\* ------------------------------------------------------------------------
\* re_parser: create_automaton
\* ------------------------------------------------------------------------
\* "for x in rpn_string" over the stack of automata; list.pop() of an empty
\* list raises IndexError.
RECURSIVE EvalLoop(_, _, _, _)
EvalLoop(rpn_string, stack, state_counter, calls) ==
    IF rpn_string = <<>>
    THEN IF Len(stack) = 0
         THEN [result |-> IndexError, state_counter |-> state_counter, calls |-> calls]
         ELSE [result |-> stack[Len(stack)], state_counter |-> state_counter,
               calls |-> calls]
    ELSE LET x == Head(rpn_string)
             n == Len(stack)
             raised == [result |-> IndexError, state_counter |-> state_counter,
                        calls |-> calls]
         IN IF x = ChStar
            THEN IF n < 1 THEN raised
                 ELSE LET r == create_automaton_star(state_counter, stack[n])
                      IN EvalLoop(Tail(rpn_string),
                                  Append(SubSeq(stack, 1, n - 1), r.aut), r.state_counter,
                                  Append(calls, [op |-> "star", operands |-> <<stack[n]>>,
                                                 state_counter |-> state_counter,
                                                 out |-> r.aut]))
            ELSE IF x = ChPlus
            THEN IF n < 2 THEN raised
                 ELSE LET out == create_automaton_union(stack[n - 1], stack[n])
                      IN EvalLoop(Tail(rpn_string),
                                  Append(SubSeq(stack, 1, n - 2), out), state_counter,
                                  Append(calls, [op |-> "union",
                                                 operands |-> <<stack[n - 1], stack[n]>>,
                                                 state_counter |-> state_counter,
                                                 out |-> out]))
            ELSE IF x = ChDot
            THEN IF n < 2 THEN raised
                 ELSE LET out == create_automaton_concat(stack[n - 1], stack[n])
                      IN EvalLoop(Tail(rpn_string),
                                  Append(SubSeq(stack, 1, n - 2), out), state_counter,
                                  Append(calls, [op |-> "concat",
                                                 operands |-> <<stack[n - 1], stack[n]>>,
                                                 state_counter |-> state_counter,
                                                 out |-> out]))
            ELSE LET r == IF x = ChLambda
                          THEN create_automaton_lambda(state_counter)
                          ELSE create_automaton_symbol(state_counter, x)
                 IN EvalLoop(Tail(rpn_string), Append(stack, r.aut), r.state_counter, calls)

\* create_automaton: what it returns or raises (result), self.state_counter
\* as the call leaves it, and the compositions it made, in order (calls:
\* the rule, its operands, self.state_counter when it was called, and what
\* it returned).
create_automaton(re_string, state_counter) ==
    IF re_string = <<>>
    THEN LET r == create_automaton_empty(state_counter)
         IN [result |-> r.aut, state_counter |-> r.state_counter, calls |-> <<>>]
    ELSE LET rpn == re_to_rpn(re_string)
         IN IF rpn.kind # "ok"
            THEN [result |-> rpn, state_counter |-> state_counter, calls |-> <<>>]
            ELSE EvalLoop(rpn.rpn_string, <<>>, 0, <<>>)

\* ------------------------------------------------------------------------
\* Destination lists as objects
\* ------------------------------------------------------------------------
\* A Python list is an object: two tables that hold the same list see each
\* other's append.  Here the list objects live in a heap, a sequence whose
\* positions are their addresses, and an automaton "by reference" has in
\* every cell of its table the address of a list where the automata above
\* have the list itself.  The dicts need no addresses: __init__ builds the
\* outer and the inner dicts anew and keeps only the lists it is given.

\* The automaton by value that an automaton by reference is in heap h.
Deref(h, A) ==
    [A EXCEPT !.transitions =
        [s \in DOMAIN A.transitions |->
            [sym \in DOMAIN A.transitions[s] |-> h[A.transitions[s][sym]]]]]

\* The (state, symbol) cells of a table.
Cells(transitions) ==
    {c \in (DOMAIN transitions) \X UNION {DOMAIN transitions[t] : t \in DOMAIN transitions} :
        c[2] \in DOMAIN transitions[c[1]]}

\* add_transition: append to the list of the cell, a new list when the cell
\* is new.
ref_add_transition(h, A, start_state, symbol, end_state) ==
    LET row == IF start_state \in DOMAIN A.transitions
               THEN A.transitions[start_state] ELSE EmptyDict
    IN IF symbol \in DOMAIN row
       THEN [heap |-> [h EXCEPT ![row[symbol]] = Append(@, end_state)], aut |-> A]
       ELSE [heap |-> Append(h, <<end_state>>),
             aut |-> [A EXCEPT !.transitions =
                         Put(A.transitions, start_state, Put(row, symbol, Len(h) + 1))]]

\* _create_automaton_symbol: the list [state2] is new.
ref_create_automaton_symbol(h, state_counter, symbol) ==
    LET state1 == str(state_counter)
        state2 == str(state_counter + 1)
    IN [heap |-> Append(h, <<state2>>),
        aut |-> FiniteAutomaton(state1, {state1, state2}, {symbol},
                                (state1 :> (symbol :> Len(h) + 1)), {state2}),
        state_counter |-> state_counter + 2]

\* add_lambda of _create_automaton_star: "existing.append(dst)" on the list
\* the cell holds, "[dst]", a new list, when src has no lambda cell.
ref_add_lambda(w, src, dst) ==
    LET row == IF src \in DOMAIN w.transitions THEN w.transitions[src] ELSE EmptyDict
    IN IF ChLambda \in DOMAIN row
       THEN [heap |-> [w.heap EXCEPT ![row[ChLambda]] = Append(@, dst)],
             transitions |-> w.transitions]
       ELSE [heap |-> Append(w.heap, <<dst>>),
             transitions |-> Put(w.transitions, src, Put(row, ChLambda, Len(w.heap) + 1))]

RECURSIVE RefAddLambdaFromAll(_, _, _)
RefAddLambdaFromAll(w, srcs, dst) ==
    IF srcs = <<>> THEN w
    ELSE RefAddLambdaFromAll(ref_add_lambda(w, Head(srcs), dst), Tail(srcs), dst)

\* _create_automaton_star: "{s: dict(t) for s, t in ...}" copies the dicts
\* and keeps the lists of the operand.
ref_create_automaton_star(h, state_counter, automaton) ==
    LET new == StarNewStates(state_counter)
        finals == list(automaton.final_states)
        w1 == ref_add_lambda([heap |-> h, transitions |-> automaton.transitions],
                             new.new_initial, automaton.initial_state)
        w2 == ref_add_lambda(w1, new.new_initial, new.new_final)
        w3 == RefAddLambdaFromAll(w2, finals, automaton.initial_state)
        w4 == RefAddLambdaFromAll(w3, finals, new.new_final)
    IN [heap |-> w4.heap,
        aut |-> FiniteAutomaton(new.new_initial,
                                automaton.states \cup {new.new_initial, new.new_final},
                                automaton.symbols, w4.transitions, {new.new_final}),
        state_counter |-> state_counter + 2]

\* "[offset_state(d) for d in dest_states]" for the cells given: a new list
\* for every cell, in the row of the renamed state.
RECURSIVE RefOffsetCells(_, _, _, _)
RefOffsetCells(w, transitions, cells, offset) ==
    IF cells = {} THEN w
    ELSE LET c == CHOOSE x \in cells : TRUE
             ns == offset_state(c[1], offset)
             old == transitions[c[1]][c[2]]
             new == [i \in 1..Len(w.heap[old]) |-> offset_state(w.heap[old][i], offset)]
         IN RefOffsetCells([heap |-> Append(w.heap, new),
                            transitions |-> Put(w.transitions, ns,
                                                Put(w.transitions[ns], c[2],
                                                    Len(w.heap) + 1))],
                           transitions, cells \ {c}, offset)

\* The table of automaton2 renamed by the offset, every list new.
RefOffsetTransitions(h, transitions, offset) ==
    RefOffsetCells([heap |-> h,
                    transitions |-> [ns \in {offset_state(s, offset) : s \in DOMAIN transitions}
                                        |-> EmptyDict]],
                   transitions, Cells(transitions), offset)

\* _create_automaton_union: "automaton1.transitions.copy()" keeps the lists
\* of automaton1; the lists of automaton2 and of the new initial state are
\* new.
ref_create_automaton_union(h, automaton1, automaton2) ==
    LET offset == UnionOffset(automaton1)
        a2_states_offset == {offset_state(s, offset) : s \in automaton2.states}
        a2_initial_offset == offset_state(automaton2.initial_state, offset)
        a2_finals_offset == {offset_state(s, offset) : s \in automaton2.final_states}
        w == RefOffsetTransitions(h, automaton2.transitions, offset)
        new_initial ==
            str(offset + max({int(s) : s \in {t \in a2_states_offset : isdigit(t)}}) + 1)
        transitions ==
            Put(Merge(automaton1.transitions, w.transitions), new_initial,
                (ChLambda :> Len(w.heap) + 1))
    IN [heap |-> Append(w.heap, <<automaton1.initial_state, a2_initial_offset>>),
        aut |-> FiniteAutomaton(new_initial,
                                automaton1.states \cup a2_states_offset \cup {new_initial},
                                automaton1.symbols \cup automaton2.symbols,
                                transitions,
                                automaton1.final_states \cup a2_finals_offset)]

\* "a1_trans[s][sym] = dest[:]" for the cells given: a copy of every list.
RECURSIVE RefCopyCells(_, _, _)
RefCopyCells(w, transitions, cells) ==
    IF cells = {} THEN w
    ELSE LET c == CHOOSE x \in cells : TRUE
         IN RefCopyCells([heap |-> Append(w.heap, w.heap[transitions[c[1]][c[2]]]),
                          transitions |-> Put(w.transitions, c[1],
                                              Put(w.transitions[c[1]], c[2],
                                                  Len(w.heap) + 1))],
                         transitions, cells \ {c})

\* "for f in automaton1.final_states" of the concatenation, on the lists of
\* the new table.
RECURSIVE RefConcatLink(_, _, _)
RefConcatLink(w, finals, a2_init) ==
    IF finals = <<>> THEN w
    ELSE LET f == Head(finals)
             row == IF f \in DOMAIN w.transitions THEN w.transitions[f] ELSE EmptyDict
             w1 == IF ChLambda \in DOMAIN row THEN w
                   ELSE [heap |-> Append(w.heap, <<>>),
                         transitions |-> Put(w.transitions, f,
                                             Put(row, ChLambda, Len(w.heap) + 1))]
             addr == w1.transitions[f][ChLambda]
             w2 == IF a2_init \in Range(w1.heap[addr]) THEN w1
                   ELSE [w1 EXCEPT !.heap = [w1.heap EXCEPT ![addr] = Append(@, a2_init)]]
         IN RefConcatLink(w2, Tail(finals), a2_init)

\* _create_automaton_concat: every list of the result is new.
ref_create_automaton_concat(h, automaton1, automaton2) ==
    LET a1_state_ints == {int(s) : s \in automaton1.states}
        offset == IF a1_state_ints # {} THEN max(a1_state_ints) + 1 ELSE 0
        a1 == RefCopyCells([heap |-> h,
                            transitions |-> [s \in DOMAIN automaton1.transitions |-> EmptyDict]],
                           automaton1.transitions, Cells(automaton1.transitions))
        a2 == RefOffsetTransitions(a1.heap, automaton2.transitions, offset)
        a2_init == offset_state(automaton2.initial_state, offset)
        w == RefConcatLink([heap |-> a2.heap,
                            transitions |-> Merge(a1.transitions, a2.transitions)],
                           list(automaton1.final_states), a2_init)
    IN [heap |-> w.heap,
        aut |-> FiniteAutomaton(automaton1.initial_state,
                                automaton1.states \cup
                                    {offset_state(s, offset) : s \in automaton2.states},
                                automaton1.symbols \cup automaton2.symbols,
                                w.transitions,
                                {offset_state(s, offset) : s \in automaton2.final_states})]

\* ------------------------------------------------------------------------
\* State: one automaton and the calls made on it; one parser and its call
\* ------------------------------------------------------------------------
VARIABLES
    pc,             \* the last call made: "built", "accepts", "to_deterministic", ...
    aut,            \* the automaton the calls are made on
    pre,            \* the receiver of the last transformation, as it was before the call
    cadena,         \* the argument of the last accepts call
    ret,            \* what that call returned
    dfa,            \* what aut.to_deterministic() returned
    mini,           \* what aut.to_minimized() returned
    mini2,          \* what mini.to_minimized() returned
    re_string,      \* the argument of create_automaton
    state_counter,  \* REParser.state_counter
    result,         \* what create_automaton returned or raised
    calls,          \* the compositions create_automaton made
    heap,           \* the destination lists of the automata by reference
    automata,       \* the automata by reference a parser's rules made, the last one last
    operands,       \* the operands of the compositions made on them, as they then were
    added,          \* the number of add_transition calls on a composition's result
    lc              \* the _lambda_closure call under way: its argument, stack and
                    \* closure, and how often each state was put on the stack

vars == <<pc, aut, pre, cadena, ret, dfa, mini, mini2, re_string, state_counter, result, calls,
         heap, automata, operands, added, lc>>

\* Bounds of the model.
MaxStates == 3
MaxTransitions == 2
MaxCadena == 2
MaxDfaStates == 3
MaxWord == 5
MaxOperators == 2
MaxReLen == 3
MaxReWord == 3
MaxAutomata == 2
MaxOperands == 3
MaxAdded == 1

\* State names automata are built from: "a", "b", "a_b" and the dead name.
StateNames == <<<<97>>, <<98>>, <<97, ChUnderscore, 98>>, dead>>

\* Alphabets automata are built over: {"a"} and {"a", "b"}.
Alphabets == {{97}, {97, 98}}

\* Values that are no symbol of any automaton here: "z".
Strangers == {122}

\* The number of destinations stored in a transition table.
NumTransitions(A) ==
    LET cells == {<<s, sym>> : s \in DOMAIN A.transitions, sym \in A.symbols \cup {ChLambda, None}}
        RECURSIVE Sum(_)
        Sum(C) == IF C = {} THEN 0
                  ELSE LET c == CHOOSE x \in C : TRUE
                       IN Len(Dests(A, c[1], c[2])) + Sum(C \ {c})
    IN Sum(cells)

\* Strings of at most n values of S.
StringsUpTo(S, n) == UNION {[1..k -> S] : k \in 0..n}

\* No _lambda_closure call is under way.
NoClosureCall == [states |-> {}, stack |-> <<>>, closure |-> {}, pushes |-> <<>>]

\* No parser call is part of the automaton specifications.
ParserIdle ==
    /\ re_string = <<>>
    /\ state_counter = 0
    /\ result = NoAutomaton
    /\ calls = <<>>

\* No call was made on the automaton yet.
NoCallYet ==
    /\ pre = NoAutomaton
    /\ cadena = <<>>
    /\ ret = "none"
    /\ dfa = NoAutomaton
    /\ mini = NoAutomaton
    /\ mini2 = NoAutomaton
    /\ heap = <<>>
    /\ automata = <<>>
    /\ operands = <<>>
    /\ added = 0
    /\ lc = NoClosureCall

\* A newly constructed automaton: states, alphabet, initial and final states
\* given, the transition table empty.
InitBuilt ==
    /\ pc = "built"
    /\ \E n \in 1..MaxStates :
       \E symbols \in Alphabets :
         LET states == {StateNames[i] : i \in 1..n}
         IN \E initial_state \in states :
            \E final_states \in SUBSET states :
              aut = FiniteAutomaton(initial_state, states, symbols, EmptyDict, final_states)
    /\ NoCallYet
    /\ ParserIdle

\* A newly constructed automaton whose table gives every state exactly one
\* destination for every symbol of its alphabet.
InitDFA ==
    /\ pc = "built"
    /\ \E n \in 1..MaxDfaStates :
       \E symbols \in Alphabets :
         LET states == {StateNames[i] : i \in 1..n}
         IN \E initial_state \in states :
            \E final_states \in SUBSET states :
            \E delta \in [states -> [symbols -> states]] :
              aut = FiniteAutomaton(initial_state, states, symbols,
                                    [s \in states |-> [sym \in symbols |-> <<delta[s][sym]>>]],
                                    final_states)
    /\ NoCallYet
    /\ ParserIdle

\* aut.add_transition(start_state, symbol, end_state)
AddTransition ==
    /\ pc = "built"
    /\ NumTransitions(aut) < MaxTransitions
    /\ \E start_state \in aut.states :
       \E symbol \in aut.symbols \cup {ChLambda, None} :
       \E end_state \in aut.states :
         aut' = add_transition(aut, start_state, symbol, end_state)
    /\ UNCHANGED <<pc, pre, cadena, ret, dfa, mini, mini2, re_string, state_counter, result, calls,
                 heap, automata, operands, added, lc>>

\* aut.accepts(cadena)
Accepts ==
    /\ pc = "built"
    /\ \E w \in StringsUpTo(aut.symbols \cup {ChLambda, None} \cup Strangers, MaxCadena) :
         /\ cadena' = w
         /\ ret' = accepts(aut, w)
    /\ pc' = "accepts"
    /\ UNCHANGED <<aut, pre, dfa, mini, mini2, re_string, state_counter, result, calls,
                 heap, automata, operands, added, lc>>

\* aut.to_deterministic()
ToDeterministic ==
    /\ pc = "built"
    /\ \E order \in Orders(RealSymbols(aut)) :
         dfa' = to_deterministic(aut, order)
    /\ pre' = aut
    /\ pc' = "to_deterministic"
    /\ UNCHANGED <<aut, cadena, ret, mini, mini2, re_string, state_counter, result, calls,
                 heap, automata, operands, added, lc>>

\* aut.to_minimized()
ToMinimized ==
    /\ pc = "built"
    /\ \E rep \in Representatives(MinWork(aut).partitions) :
         LET r == to_minimized(aut, rep)
         IN /\ aut' = r.self
            /\ mini' = r.result
    /\ pre' = aut
    /\ pc' = "to_minimized"
    /\ UNCHANGED <<cadena, ret, dfa, mini2, re_string, state_counter, result, calls,
                 heap, automata, operands, added, lc>>

\* mini.to_minimized(), on the automaton the first call returned
ToMinimizedAgain ==
    /\ pc = "to_minimized"
    /\ \E rep \in Representatives(MinWork(mini).partitions) :
         LET r == to_minimized(mini, rep)
         IN /\ mini' = r.self
            /\ mini2' = r.result
    /\ pre' = mini
    /\ pc' = "to_minimized_again"
    /\ UNCHANGED <<aut, cadena, ret, dfa, re_string, state_counter, result, calls,
                 heap, automata, operands, added, lc>>

\* An automaton built by add_transition, then one call on it.
Next ==
    \/ AddTransition
    \/ Accepts
    \/ ToDeterministic
    \/ ToMinimized
    \/ ToMinimizedAgain

Spec == InitBuilt /\ [][Next]_vars

\* A deterministic total automaton, minimized and minimized again.
NextDFA ==
    \/ ToMinimized
    \/ ToMinimizedAgain

SpecDFA == InitDFA /\ [][NextDFA]_vars

\* ------------------------------------------------------------------------
\* Regular expressions given to the parser
\* ------------------------------------------------------------------------
\* Symbols of the expressions: "a", "b".
ReSymbols == {97, 98}

\* Expressions as trees: <<"sym", c>>, <<"lambda", 0>>, <<"star", r>>,
\* <<"union", r1, r2>>, <<"concat", r1, r2>>.  RegexOf(k): the trees with k
\* operators; Regex(n): the trees with n operators at most.
RECURSIVE RegexOf(_)
RegexOf(k) ==
    IF k = 0 THEN {<<"sym", c>> : c \in ReSymbols} \cup {<<"lambda", 0>>}
    ELSE {<<"star", r>> : r \in RegexOf(k - 1)}
           \cup UNION {{<<"union", r1, r2>> : r1 \in RegexOf(i), r2 \in RegexOf(k - 1 - i)} :
                          i \in 0..(k - 1)}
           \cup UNION {{<<"concat", r1, r2>> : r1 \in RegexOf(i), r2 \in RegexOf(k - 1 - i)} :
                          i \in 0..(k - 1)}

Regex(n) == UNION {RegexOf(k) : k \in 0..n}

\* Binding strength: union < concatenation < star < atom.
Prec(r) ==
    IF r[1] = "union" THEN 1
    ELSE IF r[1] = "concat" THEN 2
    ELSE IF r[1] = "star" THEN 3
    ELSE 4

\* The expression of a tree in the parser's infix syntax; an operand is put
\* in parentheses when it binds less than its position needs.
RECURSIVE Render(_)
Render(r) ==
    LET Wrap(x, p) == IF Prec(x) < p
                      THEN <<ChLParen>> \o Render(x) \o <<ChRParen>>
                      ELSE Render(x)
    IN IF r[1] = "sym" THEN <<r[2]>>
       ELSE IF r[1] = "lambda" THEN <<ChLambda>>
       ELSE IF r[1] = "star" THEN Wrap(r[2], 3) \o <<ChStar>>
       ELSE IF r[1] = "union" THEN Wrap(r[2], 1) \o <<ChPlus>> \o Wrap(r[3], 2)
       ELSE Wrap(r[2], 2) \o <<ChDot>> \o Wrap(r[3], 3)

\* Whether the string w is in the language the tree denotes.
RECURSIVE InLang(_, _)
InLang(r, w) ==
    IF r[1] = "sym" THEN w = <<r[2]>>
    ELSE IF r[1] = "lambda" THEN w = <<>>
    ELSE IF r[1] = "union" THEN InLang(r[2], w) \/ InLang(r[3], w)
    ELSE IF r[1] = "concat"
    THEN \E k \in 0..Len(w) :
           InLang(r[2], SubSeq(w, 1, k)) /\ InLang(r[3], SubSeq(w, k + 1, Len(w)))
    ELSE \/ w = <<>>
         \/ \E k \in 1..Len(w) :
              InLang(r[2], SubSeq(w, 1, k)) /\ InLang(r, SubSeq(w, k + 1, Len(w)))

\* The well-formed expressions, each with its tree.
WellFormed == {[tree |-> r, text |-> Render(r)] : r \in Regex(MaxOperators)}

\* Every string of at most MaxReLen characters, well-formed or not.
RawStrings == StringsUpTo({97, ChLParen, ChRParen, ChStar, ChPlus, ChDot}, MaxReLen)

\* A new parser and the expression it is about to be given.
InitRE ==
    /\ pc = "parser"
    /\ re_string \in {e.text : e \in WellFormed} \cup RawStrings
    /\ state_counter = 0
    /\ result = NoAutomaton
    /\ calls = <<>>
    /\ aut = NoAutomaton
    /\ NoCallYet

\* REParser().create_automaton(re_string)
CreateAutomaton ==
    /\ pc = "parser"
    /\ LET r == create_automaton(re_string, state_counter)
       IN /\ result' = r.result
          /\ state_counter' = r.state_counter
          /\ calls' = r.calls
    /\ pc' = "create_automaton"
    /\ UNCHANGED <<aut, pre, cadena, ret, dfa, mini, mini2, re_string,
                   heap, automata, operands, added, lc>>

SpecRE == InitRE /\ [][CreateAutomaton]_vars

\* ------------------------------------------------------------------------
\* The composition rules called one by one, on automata by reference
\* ------------------------------------------------------------------------
\* A new parser; no rule was called yet.
InitRules ==
    /\ pc = "parser"
    /\ aut = NoAutomaton
    /\ NoCallYet
    /\ ParserIdle

\* What a rule's call leaves alone.
RulesFrame ==
    UNCHANGED <<aut, pre, cadena, ret, dfa, mini, mini2, re_string, result, calls, lc>>

\* An operand of a composition: the automaton, and its value when the rule
\* was called.
Operand(A) == [aut |-> A, was |-> Deref(heap, A)]

\* parser._create_automaton_symbol(symbol)
CreateSymbol ==
    /\ Len(automata) < MaxAutomata
    /\ \E symbol \in ReSymbols :
         LET r == ref_create_automaton_symbol(heap, state_counter, symbol)
         IN /\ heap' = r.heap
            /\ automata' = Append(automata, r.aut)
            /\ state_counter' = r.state_counter
    /\ pc' = "parser"
    /\ UNCHANGED <<operands, added>>
    /\ RulesFrame

\* parser._create_automaton_star(automaton), on the last automaton made
ComposeStar ==
    /\ Len(automata) >= 1
    /\ Len(operands) < MaxOperands
    /\ LET n == Len(automata)
           r == ref_create_automaton_star(heap, state_counter, automata[n])
       IN /\ heap' = r.heap
          /\ automata' = Append(SubSeq(automata, 1, n - 1), r.aut)
          /\ state_counter' = r.state_counter
          /\ operands' = Append(operands, Operand(automata[n]))
    /\ pc' = "composed"
    /\ UNCHANGED added
    /\ RulesFrame

\* parser._create_automaton_union(automaton1, automaton2), on the last two
ComposeUnion ==
    /\ Len(automata) >= 2
    /\ Len(operands) < MaxOperands
    /\ LET n == Len(automata)
           r == ref_create_automaton_union(heap, automata[n - 1], automata[n])
       IN /\ heap' = r.heap
          /\ automata' = Append(SubSeq(automata, 1, n - 2), r.aut)
          /\ operands' = operands \o <<Operand(automata[n - 1]), Operand(automata[n])>>
    /\ pc' = "composed"
    /\ UNCHANGED <<state_counter, added>>
    /\ RulesFrame

\* parser._create_automaton_concat(automaton1, automaton2), on the last two
ComposeConcat ==
    /\ Len(automata) >= 2
    /\ Len(operands) < MaxOperands
    /\ LET n == Len(automata)
           r == ref_create_automaton_concat(heap, automata[n - 1], automata[n])
       IN /\ heap' = r.heap
          /\ automata' = Append(SubSeq(automata, 1, n - 2), r.aut)
          /\ operands' = operands \o <<Operand(automata[n - 1]), Operand(automata[n])>>
    /\ pc' = "composed"
    /\ UNCHANGED <<state_counter, added>>
    /\ RulesFrame

\* add_transition(start_state, symbol, end_state) on the result of the last
\* composition
AddTransitionToResult ==
    /\ pc = "composed"
    /\ added < MaxAdded
    /\ LET n == Len(automata)
       IN \E start_state \in automata[n].states :
          \E symbol \in automata[n].symbols \cup {ChLambda} :
          \E end_state \in automata[n].states :
            LET r == ref_add_transition(heap, automata[n], start_state, symbol, end_state)
            IN /\ heap' = r.heap
               /\ automata' = [automata EXCEPT ![n] = r.aut]
    /\ added' = added + 1
    /\ UNCHANGED <<pc, state_counter, operands>>
    /\ RulesFrame

NextRules ==
    \/ CreateSymbol
    \/ ComposeStar
    \/ ComposeUnion
    \/ ComposeConcat
    \/ AddTransitionToResult

SpecRules == InitRules /\ [][NextRules]_vars

\* ------------------------------------------------------------------------
\* _lambda_closure, one turn of its loop at a time
\* ------------------------------------------------------------------------
\* A newly constructed automaton over {"a"} without final states; neither
\* matters to _lambda_closure.
InitClosure ==
    /\ pc = "built"
    /\ \E n \in 1..MaxStates :
         LET states == {StateNames[i] : i \in 1..n}
         IN \E initial_state \in states :
              aut = FiniteAutomaton(initial_state, states, {97}, EmptyDict, {})
    /\ NoCallYet
    /\ ParserIdle

\* What a step of _lambda_closure leaves alone.
ClosureFrame ==
    UNCHANGED <<aut, pre, cadena, ret, dfa, mini, mini2, re_string, state_counter, result,
                calls, heap, automata, operands, added>>

\* The number of times state s occurs in the list l.
Occurrences(l, s) == Cardinality({i \in 1..Len(l) : l[i] = s})

\* aut._lambda_closure(states) is called: "stack = list(states)", in any
\* order of the set, and "closure = set(states)".
ClosureCall ==
    /\ pc = "built"
    /\ \E states \in SUBSET aut.states :
       \E stack \in Orders(states) :
         lc' = [states |-> states, stack |-> stack, closure |-> states,
                pushes |-> [s \in aut.states |-> Occurrences(stack, s)]]
    /\ pc' = "lambda_closure"
    /\ ClosureFrame

\* One turn of "while stack".
ClosureTurn ==
    /\ pc = "lambda_closure"
    /\ lc.stack # <<>>
    /\ LET r == ClosureIteration(aut, lc.stack, lc.closure)
           pushed == SubSeq(r.stack, Len(lc.stack), Len(r.stack))
       IN lc' = [lc EXCEPT !.stack = r.stack,
                           !.closure = r.closure,
                           !.pushes = [s \in aut.states |-> @[s] + Occurrences(pushed, s)]]
    /\ UNCHANGED pc
    /\ ClosureFrame

\* "return closure", when the stack is empty.
ClosureReturn ==
    /\ pc = "lambda_closure"
    /\ lc.stack = <<>>
    /\ pc' = "lambda_closure_done"
    /\ UNCHANGED lc
    /\ ClosureFrame

NextClosure ==
    \/ AddTransition
    \/ ClosureCall
    \/ ClosureTurn
    \/ ClosureReturn

\* A call that began runs on: the interpreter executes the loop and the
\* return.
SpecClosure ==
    /\ InitClosure
    /\ [][NextClosure]_vars
    /\ WF_vars(ClosureTurn \/ ClosureReturn)

\* ------------------------------------------------------------------------
\* Notions the properties are stated with
\* ------------------------------------------------------------------------
\* A deterministic automaton with a total transition function: every state
\* has exactly one destination, a state, for every symbol; no table entry
\* for anything else.
IsDeterministicTotal(A) ==
    /\ A.kind = "automaton"
    /\ DOMAIN A.transitions = A.states
    /\ \A s \in A.states :
         /\ DOMAIN A.transitions[s] = A.symbols
         /\ \A sym \in A.symbols :
              /\ Len(A.transitions[s][sym]) = 1
              /\ A.transitions[s][sym][1] \in A.states
    /\ A.symbols \cap {ChLambda, None} = {}

\* There is a path from the initial state to a final state whose labels
\* other than the epsilon markers spell w: reachability in the graph of
\* (state, number of symbols read).
PathAccepts(A, w) ==
    LET Nodes == A.states \X (0..Len(w))
        Edge(m, n) ==
            \/ /\ n[2] = m[2]
               /\ n[1] \in Range(Dests(A, m[1], ChLambda)) \cup Range(Dests(A, m[1], None))
            \/ /\ n[2] = m[2] + 1
               /\ n[1] \in Range(Dests(A, m[1], w[n[2]]))
        RECURSIVE Grow(_)
        Grow(R) == LET R2 == R \cup {n \in Nodes : \E m \in R : Edge(m, n)}
                   IN IF R2 = R THEN R ELSE Grow(R2)
    IN \E q \in A.final_states : <<q, Len(w)>> \in Grow({<<A.initial_state, 0>>})

\* Whether w, read from state q, ends in a final state.
AcceptsFrom(A, q, w) == accepts([A EXCEPT !.initial_state = q], w)

\* The depth of open parentheses after each prefix of an expression.
RECURSIVE ParenDepth(_)
ParenDepth(e) ==
    IF e = <<>> THEN 0
    ELSE ParenDepth(SubSeq(e, 1, Len(e) - 1))
         + (IF e[Len(e)] = ChLParen THEN 1 ELSE IF e[Len(e)] = ChRParen THEN -1 ELSE 0)

UnmatchedClose(e) == \E k \in 1..Len(e) : ParenDepth(SubSeq(e, 1, k)) < 0
UnmatchedOpen(e) == ~UnmatchedClose(e) /\ ParenDepth(e) > 0

\* The number of operands on the stack after a postfix prefix, when no
\* operator of the prefix lacked one.
RECURSIVE OperandsAfter(_)
OperandsAfter(rpn) ==
    IF rpn = <<>> THEN 0
    ELSE LET x == rpn[Len(rpn)]
             n == OperandsAfter(SubSeq(rpn, 1, Len(rpn) - 1))
         IN IF x = ChStar THEN n
            ELSE IF x \in {ChPlus, ChDot} THEN n - 1
            ELSE n + 1

\* An operator of the postfix string is evaluated on too few operands.
OperatorStarved(rpn) ==
    \E k \in 1..Len(rpn) :
        /\ \A j \in 1..(k - 1) :
             rpn[j] \in {ChStar, ChPlus, ChDot} =>
                OperandsAfter(SubSeq(rpn, 1, j - 1)) >= (IF rpn[j] = ChStar THEN 1 ELSE 2)
        /\ rpn[k] \in {ChStar, ChPlus, ChDot}
        /\ OperandsAfter(SubSeq(rpn, 1, k - 1)) < (IF rpn[k] = ChStar THEN 1 ELSE 2)

Malformed(e) ==
    \/ UnmatchedOpen(e)
    \/ UnmatchedClose(e)
    \/ (re_to_rpn(e).kind = "ok" /\ OperatorStarved(re_to_rpn(e).rpn_string))

\* ------------------------------------------------------------------------
\* Properties
\* ------------------------------------------------------------------------
\* C1: the automaton create_automaton returns for a well-formed expression
\* accepts exactly the strings of the language the expression denotes.
C1_CompiledLanguage ==
    pc = "create_automaton" =>
        \A e \in WellFormed :
            re_string = e.text =>
                /\ result.kind = "automaton"
                /\ \A w \in StringsUpTo(ReSymbols, MaxReWord) :
                     accepts(result, w) <=> InLang(e.tree, w)

\* C2: the automaton to_deterministic returns accepts the same strings over
\* the alphabet as the automaton it was called on.
C2_DeterminizePreservesLanguage ==
    pc = "to_deterministic" =>
        \A w \in StringsUpTo(RealSymbols(pre), MaxWord) :
            accepts(pre, w) = accepts(dfa, w)

\* C3: the automaton to_minimized returns for a deterministic total
\* automaton accepts the same strings over the alphabet.
C3_MinimizePreservesLanguage ==
    (pc = "to_minimized" /\ IsDeterministicTotal(pre)) =>
        \A w \in StringsUpTo(pre.symbols, MaxWord) :
            accepts(pre, w) = accepts(mini, w)

\* C3 witness: a deterministic total automaton was minimized, states were
\* merged, and its language is neither empty nor everything.
C3_Witness ==
    /\ pc = "to_minimized"
    /\ IsDeterministicTotal(pre)
    /\ Cardinality(mini.states) = 2
    /\ Cardinality(pre.states) = 3
    /\ \E w \in StringsUpTo(pre.symbols, MaxWord) : accepts(mini, w)
    /\ \E w \in StringsUpTo(pre.symbols, MaxWord) : ~accepts(mini, w)

\* C4: in the automaton to_deterministic returns every state, the dead
\* state included, has for every alphabet symbol exactly one destination,
\* which is a state of the result, and no entry for an epsilon marker.
C4_DeterminizerTotal ==
    pc = "to_deterministic" =>
        \A q \in dfa.states :
            /\ q \in DOMAIN dfa.transitions
            /\ DOMAIN dfa.transitions[q] = dfa.symbols
            /\ dfa.symbols \cap {ChLambda, None} = {}
            /\ \A sym \in dfa.symbols :
                 /\ Len(dfa.transitions[q][sym]) = 1
                 /\ dfa.transitions[q][sym][1] \in dfa.states

\* C4 witness: a determinized automaton over two symbols that holds the
\* dead state beside two others.
C4_Witness ==
    /\ pc = "to_deterministic"
    /\ dead \in dfa.states
    /\ dead \notin pre.states
    /\ Cardinality(dfa.states) >= 3
    /\ Cardinality(dfa.symbols) = 2

\* C5: no two distinct states of the automaton to_minimized returns for a
\* deterministic total automaton are language-equivalent: some string leads
\* one of them to a final state and the other to a non-final state.
C5_MinimizedStatesDistinguishable ==
    (pc = "to_minimized" /\ IsDeterministicTotal(pre)) =>
        \A c1, c2 \in mini.states :
            c1 # c2 =>
                \E w \in StringsUpTo(mini.symbols, MaxWord) :
                    AcceptsFrom(mini, c1, w) # AcceptsFrom(mini, c2, w)

\* C5 witness: a three-state deterministic total automaton was minimized to
\* two states.
C5_Witness ==
    /\ pc = "to_minimized"
    /\ IsDeterministicTotal(pre)
    /\ Cardinality(pre.states) = 3
    /\ Cardinality(mini.states) = 2
    /\ Cardinality(mini.symbols) = 2

\* C6: for an input over the alphabet, accepts returns true exactly when a
\* path from the initial state to a final state spells the input, epsilon
\* edges allowed anywhere on it (so the empty input is accepted exactly
\* when a final state is epsilon-reachable from the initial state).
C6_AcceptsIffPath ==
    (pc = "accepts" /\ Range(cadena) \subseteq aut.symbols) =>
        ret = PathAccepts(aut, cadena)

\* C6 witness: a two-symbol input was accepted along a path that takes an
\* epsilon edge.
C6_Witness ==
    /\ pc = "accepts"
    /\ Range(cadena) \subseteq aut.symbols
    /\ Len(cadena) = 2
    /\ ret = TRUE
    /\ \E s \in aut.states : Dests(aut, s, ChLambda) # <<>> \/ Dests(aut, s, None) # <<>>
    /\ NumTransitions(aut) = 2

\* C7: an input that holds a value outside the alphabet, an epsilon marker
\* included, is rejected.
C7_StrangerRejected ==
    (pc = "accepts" /\ \E i \in 1..Len(cadena) : cadena[i] \notin aut.symbols) =>
        ret = FALSE

\* C8: create_automaton returns no automaton for a malformed expression:
\* an unmatched "(", an unmatched ")", or an operator evaluated on fewer
\* operands than it needs.
C8_MalformedFails ==
    (pc = "create_automaton" /\ Malformed(re_string)) =>
        result.kind # "automaton"

\* C9: to_deterministic and to_minimized leave the automaton they are
\* called on as it was.
C9_ReceiverUnchanged ==
    /\ pc \in {"to_deterministic", "to_minimized"} => aut = pre
    /\ pc = "to_minimized_again" => mini = pre

\* C10: minimizing the minimized automaton of a deterministic total
\* automaton gives no more states: nothing is merged and nothing is split.
C10_MinimizeIdempotentInSize ==
    (pc = "to_minimized_again" /\ IsDeterministicTotal(aut)) =>
        /\ Cardinality(mini2.states) <= Cardinality(mini.states)
        /\ Cardinality(mini2.states) = Cardinality(mini.states)

\* C10 witness: the first minimization merged states and the second was run
\* on its two-state result.
C10_Witness ==
    /\ pc = "to_minimized_again"
    /\ IsDeterministicTotal(aut)
    /\ Cardinality(aut.states) = 3
    /\ Cardinality(mini.states) = 2
    /\ mini2.kind = "automaton"

\* A state has more than one destination for a symbol, or an epsilon
\* transition.
IsNondeterministic(A) ==
    \E s \in DOMAIN A.transitions :
        \/ \E sym \in DOMAIN A.transitions[s] : Len(A.transitions[s][sym]) > 1
        \/ Dests(A, s, ChLambda) # <<>>
        \/ Dests(A, s, None) # <<>>

\* C11: to_minimized, called on a non-deterministic automaton, returns no
\* automaton: it fails.
C11_MinimizeFailsOnNondeterministic ==
    (pc = "to_minimized" /\ IsNondeterministic(pre)) =>
        mini.kind # "automaton"

\* create_automaton returned from the evaluation of a well-formed expression.
CompiledWellFormed ==
    /\ pc = "create_automaton"
    /\ re_string \in {e.text : e \in WellFormed}

\* The name the union gives state s of its second operand.
UnionRenamed(automaton1, s) == offset_state(s, UnionOffset(automaton1))

\* C12: in every composition made while a well-formed expression is
\* evaluated, the states the star adds are no states of its operand (the
\* result has two states more), the initial state the union adds is no state
\* of its operands, and the operands of the union and of the concatenation
\* keep all their states apart after renumbering.
C12_StateIdsUnique ==
    CompiledWellFormed =>
        \A i \in 1..Len(calls) :
            LET c == calls[i]
                A == c.operands[1]
            IN IF c.op = "star"
               THEN /\ c.out.initial_state \notin A.states
                    /\ c.out.final_states \cap A.states = {}
                    /\ Cardinality(c.out.states) = Cardinality(A.states) + 2
               ELSE IF c.op = "union"
               THEN /\ c.out.initial_state \notin A.states
                    /\ Cardinality(c.out.states) =
                         Cardinality(A.states) + Cardinality(c.operands[2].states) + 1
               ELSE Cardinality(c.out.states) =
                        Cardinality(A.states) + Cardinality(c.operands[2].states)

\* C14 as first stated: every union made while a well-formed expression is
\* evaluated adds an initial state and a final state, both new; the new
\* initial state has epsilon edges to both initial states, every final state
\* of an operand has an epsilon edge to the new final state, which is the
\* only final state of the result.
C14_UnionNewInitialAndFinal ==
    CompiledWellFormed =>
        \A i \in 1..Len(calls) :
            calls[i].op = "union" =>
                LET A == calls[i].operands[1]
                    B == calls[i].operands[2]
                    out == calls[i].out
                    old == A.states \cup {UnionRenamed(A, s) : s \in B.states}
                IN \E ni, nf \in out.states \ old :
                      /\ ni # nf
                      /\ out.initial_state = ni
                      /\ out.final_states = {nf}
                      /\ {A.initial_state, UnionRenamed(A, B.initial_state)}
                            \subseteq Range(Dests(out, ni, ChLambda))
                      /\ \A f \in A.final_states \cup
                                   {UnionRenamed(A, s) : s \in B.final_states} :
                            nf \in Range(Dests(out, f, ChLambda))

\* C14: every union made while a well-formed expression is evaluated adds
\* one state, a new initial state whose epsilon edges lead to the initial
\* states of the operands; the final states of the result are the final
\* states of the first operand and the renumbered final states of the
\* second, and no final state is added.
C14_UnionNewInitialOnly ==
    CompiledWellFormed =>
        \A i \in 1..Len(calls) :
            calls[i].op = "union" =>
                LET A == calls[i].operands[1]
                    B == calls[i].operands[2]
                    out == calls[i].out
                    old == A.states \cup {UnionRenamed(A, s) : s \in B.states}
                IN /\ out.initial_state \notin old
                   /\ out.states = old \cup {out.initial_state}
                   /\ Cardinality(out.states) =
                        Cardinality(A.states) + Cardinality(B.states) + 1
                   /\ Dests(out, out.initial_state, ChLambda) =
                        <<A.initial_state, UnionRenamed(A, B.initial_state)>>
                   /\ out.final_states =
                        A.final_states \cup {UnionRenamed(A, s) : s \in B.final_states}
                   /\ out.final_states \subseteq old

\* C14 witness: a union of a star and a symbol was made; its result has
\* two final states.
C14_Witness ==
    /\ CompiledWellFormed
    /\ \E i \in 1..Len(calls) :
         /\ calls[i].op = "union"
         /\ Cardinality(calls[i].operands[1].states) = 4
         /\ Cardinality(calls[i].out.final_states) = 2

\* C13: the transitions of an automaton that was an operand of a star, a
\* union or a concatenation stay as they were when the rule was called,
\* whatever is added to the result afterwards, by add_transition or by a
\* later composition.
C13_OperandsKeepTransitions ==
    \A i \in 1..Len(operands) :
        Deref(heap, operands[i].aut) = operands[i].was

\* C15: in the partition the refinement of to_minimized ends with, two
\* states of one block are both final or both not, and for every symbol
\* their destinations lie in one block; so the automaton returned is the
\* same whichever member stands for its block.
C15_PartitionStable ==
    pc = "to_minimized" =>
        LET w == MinWork(pre)
            SameBlock(s, t) ==
                \E j \in 1..Len(w.partitions) : {s, t} \subseteq w.partitions[j]
        IN /\ \A i \in 1..Len(w.partitions) :
                \A s, t \in w.partitions[i] :
                    /\ (s \in pre.final_states) = (t \in pre.final_states)
                    /\ \A sym \in Range(w.symbols) :
                         SameBlock(w.dtrans[s][sym][1], w.dtrans[t][sym][1])
           /\ \A rep \in Representatives(w.partitions) :
                to_minimized(pre, rep).result = mini

\* C15 witness: the refinement ended with three blocks or more, one of them
\* of two states or more, after it split a block of the first partition.
C15_Witness ==
    /\ pc = "to_minimized"
    /\ LET w == MinWork(pre)
       IN /\ Len(w.partitions) >= 3
          /\ \E i \in 1..Len(w.partitions) : Cardinality(w.partitions[i]) >= 2

\* An epsilon edge leads from s to t.
EpsilonEdge(A, s, t) == t \in Range(Dests(A, s, ChLambda)) \cup Range(Dests(A, s, None))

\* T is closed under the epsilon edges of A.
EpsilonClosed(A, T) == \A s \in T : \A t \in A.states : EpsilonEdge(A, s, t) => t \in T

\* While a _lambda_closure call runs no state is put on the stack twice, and
\* what it returns is the smallest superset of its argument closed under
\* epsilon edges: the argument itself when none of its states has one.
ClosureSafe ==
    pc \in {"lambda_closure", "lambda_closure_done"} =>
        /\ \A s \in aut.states : lc.pushes[s] <= 1
        /\ pc = "lambda_closure_done" =>
              /\ lc.states \subseteq lc.closure
              /\ EpsilonClosed(aut, lc.closure)
              /\ \A T \in SUBSET aut.states :
                    (lc.states \subseteq T /\ EpsilonClosed(aut, T)) => lc.closure \subseteq T
              /\ (\A s \in lc.states : \A t \in aut.states : ~EpsilonEdge(aut, s, t)) =>
                    lc.closure = lc.states
              /\ lc.closure = lambda_closure(aut, lc.states)

\* C16: every _lambda_closure call returns, cycles of epsilon edges or not,
\* having put each state on its stack at most once, and returns the set of
\* the states that zero or more epsilon edges reach from its argument.
C16_ClosureTerminatesExact ==
    /\ []ClosureSafe
    /\ (pc = "lambda_closure") ~> (pc = "lambda_closure_done")

\* C16 witness: a call returned more than its argument, over a cycle of
\* epsilon edges that leads back into the argument.
C16_Witness ==
    /\ pc = "lambda_closure_done"
    /\ lc.states # {}
    /\ \E s \in lc.closure \ lc.states :
         \E t \in lc.states : EpsilonEdge(aut, s, t)

\* The sets of states to_deterministic has to tell apart: the closure of the
\* initial state and, from each of them, next_states for every symbol.
DetSubsets(A) ==
    LET RECURSIVE Grow(_)
        Grow(R) == LET R2 == R \cup {DetNextStates(A, S, sym) : S \in R, sym \in RealSymbols(A)}
                   IN IF R2 = R THEN R ELSE Grow(R2)
    IN Grow({lambda_closure(A, {A.initial_state})})

\* C17: name_state gives two different sets of states two different names,
\* and the dead name to the empty set only; so the states of the automaton
\* to_deterministic returns are as many as the sets of states it met.
C17_NameStateInjective ==
    pc = "to_deterministic" =>
        /\ \A S1, S2 \in DetSubsets(pre) :
              /\ name_state(S1) = name_state(S2) => S1 = S2
              /\ name_state(S1) = dead => S1 = {}
        /\ Cardinality(dfa.states) = Cardinality(DetSubsets(pre))

=============================================================================
